---- MODULE Spec2Model ----
(***************************************************************************)
(* The data model of app/models.py: the persisted tables, the request     *)
(* payload classes, their defaults and field constraints, and the         *)
(* create / update requests that turn a validated payload into a stored   *)
(* row.                                                                    *)
(*                                                                         *)
(* Representation.                                                         *)
(*   - Optional[T]: None is <<>>, a present value v is <<v>>.             *)
(*   - Free text (name, description, system_message, full_name, password, *)
(*     user_input, ...) is represented by its length, the only attribute  *)
(*     the schema constrains.  The three unique keys keep their identity: *)
(*     email is a sequence of characters (the pattern is matched on it),  *)
(*     username and key_hash are strings.                                  *)
(*   - A Decimal voice parameter is an integer number of hundredths       *)
(*     (Decimal("1.0") is 100, 0.1 is 10, 2.0 is 200); a Decimal timing   *)
(*     or duration is an integer number of its unit.                       *)
(*   - A datetime is a value of the logical clock.                         *)
(*   - A JSON mapping is a set of <<key, value>> pairs.                    *)
(***************************************************************************)
EXTENDS Integers, Sequences, FiniteSets, TLC

VARIABLES users, aiServices, agents, serviceConfigs, apiKeys, testSessions,
          conversationLogs, lastOp, clock, budget

vars == <<users, aiServices, agents, serviceConfigs, apiKeys, testSessions,
          conversationLogs, lastOp, clock, budget>>

tables == <<users, aiServices, agents, serviceConfigs, apiKeys, testSessions,
            conversationLogs>>

(***************************************************************************)
(* Bounds of the model.                                                    *)
(***************************************************************************)
\* Requests served in one run, from a database that holds the rows the
\* requests refer to.
MaxRequests == 2
\* Requests served in one run where the case takes a chain of three (create
\* a key, use it, update it; open a session, log two exchanges).
MaxChainRequests == 3
\* Requests served in one run from the empty database.
MaxSchemaRequests == 2
\* Rows per table.
MaxRows == 2

(***************************************************************************)
(* Optional values and payload construction.                               *)
(***************************************************************************)
None == <<>>

Some(v) == <<v>>

\* A value of an Optional field satisfies a constraint when it is absent.
OptGe(x, lo) == x = None \/ x[1] >= lo

OptLe(x, hi) == x = None \/ x[1] <= hi

\* The payload object built from the arguments of a request: a declared
\* field takes its argument (wrapped when the field is Optional) or else its
\* default; an argument that names no declared field is ignored.
BuildPayload(args, required, defaults, optional) ==
    [f \in required \cup DOMAIN defaults |->
        IF f \in DOMAIN args
        THEN (IF f \in optional THEN Some(args[f]) ELSE args[f])
        ELSE defaults[f]]

\* The row built from keyword arguments: a keyword overrides the column's
\* default.
BuildRow(kwargs, defaults) == kwargs @@ defaults

\* "unset = leave unchanged": a column named by a set (not None) field of
\* the update payload takes the payload's value, every other column stays.
\* A column that is itself Optional stores the wrapped value.
ApplyUpdate(row, payload, optionalColumns) ==
    [f \in DOMAIN row |->
        IF f \in DOMAIN payload /\ payload[f] # None
        THEN (IF f \in optionalColumns THEN payload[f] ELSE payload[f][1])
        ELSE row[f]]

\* The storage layer assigns the identifier on insert.
Insert(table, row) == Append(table, [row EXCEPT !.id = Len(table) + 1])

\* The arguments a request may carry beside its required ones: nothing, or
\* one field of the input table with one of that field's values.
Overrides(inputs) ==
    {<<>>} \cup UNION {{f :> v : v \in inputs[f]} : f \in DOMAIN inputs}

(***************************************************************************)
(* Enumerations (models.py 9-24).                                          *)
(***************************************************************************)
ServiceType == {"tts", "stt", "llm"}

AgentStatus == {"draft", "active", "inactive"}

TestSessionStatus == {"active", "completed", "failed"}

(***************************************************************************)
(* User, UserCreate, UserUpdate.                                           *)
(***************************************************************************)
Letters ==
    {"a","b","c","d","e","f","g","h","i","j","k","l","m","n","o","p","q","r",
     "s","t","u","v","w","x","y","z",
     "A","B","C","D","E","F","G","H","I","J","K","L","M","N","O","P","Q","R",
     "S","T","U","V","W","X","Y","Z"}

Digits == {"0","1","2","3","4","5","6","7","8","9"}

\* ^[a-zA-Z0-9_.+-]+@[a-zA-Z0-9-]+\.[a-zA-Z0-9-.]+$ matched from the start
\* of e: the first "@" ends the local part (it admits no "@"), the first "."
\* after it ends the first domain label (it admits no "."), and a non-empty
\* tail of label characters and dots runs to the end.
EmailRegex(e) ==
    \E i \in 1..Len(e) : \E j \in 1..Len(e) :
        /\ 1 < i /\ i + 1 < j /\ j < Len(e)
        /\ e[i] = "@" /\ e[j] = "."
        /\ \A k \in 1..(i - 1) : e[k] \in Letters \cup Digits \cup {"_", ".", "+", "-"}
        /\ \A k \in (i + 1)..(j - 1) : e[k] \in Letters \cup Digits \cup {"-"}
        /\ \A k \in (j + 1)..Len(e) : e[k] \in Letters \cup Digits \cup {"-", "."}

UserFields ==
    {"id", "email", "username", "full_name", "password_hash", "is_active",
     "created_at", "updated_at"}

\* The username column without its unique index.
UserUnique_EmailOnly == {"email"}

UserUnique == {"email", "username"}

UserDefaults(now) ==
    [id |-> None, is_active |-> TRUE, created_at |-> now, updated_at |-> now]

\* The constraints of the User columns.
UserValid(u) ==
    /\ Len(u.email) <= 255 /\ EmailRegex(u.email)
    /\ Len(u.username) <= 50
    /\ u.full_name <= 100
    /\ Len(u.password_hash) <= 255

UserCreateRequired == {"email", "username", "full_name", "password"}

UserCreateDefaults == <<>>

UserCreateFields == UserCreateRequired \cup DOMAIN UserCreateDefaults

UserCreateValid(p) ==
    /\ Len(p.email) <= 255 /\ EmailRegex(p.email)
    /\ Len(p.username) <= 50
    /\ p.full_name <= 100
    /\ p.password >= 8 /\ p.password <= 100

UserUpdateDefaults == [full_name |-> None, username |-> None]

UserUpdateFields == DOMAIN UserUpdateDefaults

UserUpdateValid(p) ==
    /\ OptLe(p.full_name, 100)
    /\ p.username = None \/ Len(p.username[1]) <= 50

(***************************************************************************)
(* AIService, AIServiceCreate, AIServiceUpdate.                            *)
(***************************************************************************)
AIServiceFields ==
    {"id", "name", "service_type", "provider", "is_active", "description",
     "default_config", "created_at"}

AIServiceDefaults(now) ==
    [id |-> None, is_active |-> TRUE, description |-> 0, default_config |-> {},
     created_at |-> now]

\* The constraints of the AIService columns.
AIServiceValid(a) ==
    /\ a.name <= 100
    /\ a.service_type \in ServiceType
    /\ a.provider <= 100
    /\ a.description <= 500

AIServiceCreateRequired == {"name", "service_type", "provider"}

AIServiceCreateDefaults == [description |-> 0, default_config |-> {}]

AIServiceCreateFields == AIServiceCreateRequired \cup DOMAIN AIServiceCreateDefaults

AIServiceCreateValid(p) ==
    /\ p.name <= 100
    /\ p.service_type \in ServiceType
    /\ p.provider <= 100
    /\ p.description <= 500

\* AIServiceUpdate with a service_type field.
AIServiceUpdateDefaults_WithType ==
    [name |-> None, description |-> None, is_active |-> None,
     default_config |-> None, service_type |-> None]

AIServiceUpdateDefaults ==
    [name |-> None, description |-> None, is_active |-> None,
     default_config |-> None]

AIServiceUpdateFields == DOMAIN AIServiceUpdateDefaults

AIServiceUpdateValid(p) ==
    /\ OptLe(p.name, 100)
    /\ OptLe(p.description, 500)
    /\ p.is_active = None \/ p.is_active[1] \in BOOLEAN

(***************************************************************************)
(* Agent, AgentCreate, AgentUpdate.                                        *)
(***************************************************************************)
AgentFields ==
    {"id", "user_id", "name", "description", "system_message", "status",
     "voice_pitch", "voice_speed", "voice_volume", "response_timeout",
     "max_conversation_length", "created_at", "updated_at"}

AgentDefaults(now) ==
    [id |-> None, description |-> 0, system_message |-> 0, status |-> "draft",
     voice_pitch |-> 100, voice_speed |-> 100, voice_volume |-> 100,
     response_timeout |-> 30, max_conversation_length |-> 50,
     created_at |-> now, updated_at |-> now]

\* The ge / le constraints of the Agent columns.
AgentValid(a) ==
    /\ a.name <= 100 /\ a.description <= 500 /\ a.system_message <= 2000
    /\ a.status \in AgentStatus
    /\ a.voice_pitch >= 10 /\ a.voice_pitch <= 200
    /\ a.voice_speed >= 10 /\ a.voice_speed <= 300
    /\ a.voice_volume >= 10 /\ a.voice_volume <= 200
    /\ a.response_timeout >= 5 /\ a.response_timeout <= 300
    /\ a.max_conversation_length >= 1 /\ a.max_conversation_length <= 1000

AgentCreateRequired == {"name"}

AgentCreateDefaults ==
    [description |-> 0, system_message |-> 0, voice_pitch |-> 100,
     voice_speed |-> 100, voice_volume |-> 100, response_timeout |-> 30,
     max_conversation_length |-> 50]

AgentCreateFields == AgentCreateRequired \cup DOMAIN AgentCreateDefaults

AgentCreateValid(p) ==
    /\ p.name <= 100 /\ p.description <= 500 /\ p.system_message <= 2000
    /\ p.voice_pitch >= 10 /\ p.voice_pitch <= 200
    /\ p.voice_speed >= 10 /\ p.voice_speed <= 300
    /\ p.voice_volume >= 10 /\ p.voice_volume <= 200
    /\ p.response_timeout >= 5 /\ p.response_timeout <= 300
    /\ p.max_conversation_length >= 1 /\ p.max_conversation_length <= 1000

\* AgentUpdate with status defaulting to draft, as the Agent column does.
AgentUpdateDefaults_StatusDraft ==
    [name |-> None, description |-> None, system_message |-> None,
     voice_pitch |-> None, voice_speed |-> None, voice_volume |-> None,
     response_timeout |-> None, max_conversation_length |-> None,
     status |-> Some("draft")]

AgentUpdateDefaults ==
    [name |-> None, description |-> None, system_message |-> None,
     voice_pitch |-> None, voice_speed |-> None, voice_volume |-> None,
     response_timeout |-> None, max_conversation_length |-> None,
     status |-> None]

AgentUpdateFields == DOMAIN AgentUpdateDefaults

\* AgentUpdate with voice_pitch given the upper limit of voice_speed.
AgentUpdateValid_PitchLimit(p) ==
    /\ OptLe(p.name, 100) /\ OptLe(p.description, 500)
    /\ OptLe(p.system_message, 2000)
    /\ OptGe(p.voice_pitch, 10) /\ OptLe(p.voice_pitch, 300)
    /\ OptGe(p.voice_speed, 10) /\ OptLe(p.voice_speed, 300)
    /\ OptGe(p.voice_volume, 10) /\ OptLe(p.voice_volume, 200)
    /\ OptGe(p.response_timeout, 5) /\ OptLe(p.response_timeout, 300)
    /\ OptGe(p.max_conversation_length, 1)
    /\ OptLe(p.max_conversation_length, 1000)
    /\ p.status = None \/ p.status[1] \in AgentStatus

\* AgentUpdate with status declared as a plain string.
AgentUpdateValid_AnyStatus(p) ==
    /\ OptLe(p.name, 100) /\ OptLe(p.description, 500)
    /\ OptLe(p.system_message, 2000)
    /\ OptGe(p.voice_pitch, 10) /\ OptLe(p.voice_pitch, 200)
    /\ OptGe(p.voice_speed, 10) /\ OptLe(p.voice_speed, 300)
    /\ OptGe(p.voice_volume, 10) /\ OptLe(p.voice_volume, 200)
    /\ OptGe(p.response_timeout, 5) /\ OptLe(p.response_timeout, 300)
    /\ OptGe(p.max_conversation_length, 1)
    /\ OptLe(p.max_conversation_length, 1000)

AgentUpdateValid(p) ==
    /\ OptLe(p.name, 100) /\ OptLe(p.description, 500)
    /\ OptLe(p.system_message, 2000)
    /\ OptGe(p.voice_pitch, 10) /\ OptLe(p.voice_pitch, 200)
    /\ OptGe(p.voice_speed, 10) /\ OptLe(p.voice_speed, 300)
    /\ OptGe(p.voice_volume, 10) /\ OptLe(p.voice_volume, 200)
    /\ OptGe(p.response_timeout, 5) /\ OptLe(p.response_timeout, 300)
    /\ OptGe(p.max_conversation_length, 1)
    /\ OptLe(p.max_conversation_length, 1000)
    /\ p.status = None \/ p.status[1] \in AgentStatus

(***************************************************************************)
(* AgentServiceConfig, ServiceConfigCreate, ServiceConfigUpdate.           *)
(***************************************************************************)
AgentServiceConfigFields ==
    {"id", "agent_id", "service_id", "config", "is_primary", "created_at",
     "updated_at"}

AgentServiceConfigDefaults(now) ==
    [id |-> None, config |-> {}, is_primary |-> FALSE, created_at |-> now,
     updated_at |-> now]

\* The constraints of the AgentServiceConfig columns.
AgentServiceConfigValid(c) ==
    c.agent_id \in Int /\ c.service_id \in Int /\ c.is_primary \in BOOLEAN

ServiceConfigCreateRequired == {"service_id"}

ServiceConfigCreateDefaults == [config |-> {}, is_primary |-> FALSE]

ServiceConfigCreateFields ==
    ServiceConfigCreateRequired \cup DOMAIN ServiceConfigCreateDefaults

ServiceConfigCreateValid(p) == p.service_id \in Int /\ p.is_primary \in BOOLEAN

ServiceConfigUpdateDefaults == [config |-> None, is_primary |-> None]

ServiceConfigUpdateFields == DOMAIN ServiceConfigUpdateDefaults

ServiceConfigUpdateValid(p) == p.is_primary = None \/ p.is_primary[1] \in BOOLEAN

(***************************************************************************)
(* APIKey, APIKeyCreate, APIKeyUpdate.                                     *)
(***************************************************************************)
APIKeyFields ==
    {"id", "agent_id", "key_hash", "key_preview", "name", "is_active",
     "usage_count", "last_used_at", "expires_at", "rate_limit_per_hour",
     "rate_limit_per_day", "created_at", "updated_at"}

APIKeyUnique == {"key_hash"}

APIKeyOptional ==
    {"last_used_at", "expires_at", "rate_limit_per_hour", "rate_limit_per_day"}

APIKeyDefaults(now) ==
    [id |-> None, is_active |-> TRUE, usage_count |-> 0, last_used_at |-> None,
     expires_at |-> None, rate_limit_per_hour |-> None,
     rate_limit_per_day |-> None, created_at |-> now, updated_at |-> now]

\* The constraints of the APIKey columns.
APIKeyValid(k) ==
    /\ Len(k.key_hash) <= 255 /\ k.key_preview <= 20 /\ k.name <= 100
    /\ k.usage_count >= 0
    /\ OptGe(k.rate_limit_per_hour, 1) /\ OptGe(k.rate_limit_per_day, 1)

APIKeyCreateRequired == {"name"}

APIKeyCreateDefaults ==
    [expires_at |-> None, rate_limit_per_hour |-> None,
     rate_limit_per_day |-> None]

APIKeyCreateFields == APIKeyCreateRequired \cup DOMAIN APIKeyCreateDefaults

APIKeyCreateValid(p) ==
    /\ p.name <= 100
    /\ OptGe(p.rate_limit_per_hour, 1) /\ OptGe(p.rate_limit_per_day, 1)

\* APIKeyUpdate with the flag under another name than the column's.
APIKeyUpdateDefaults_Renamed ==
    [name |-> None, active |-> None, expires_at |-> None,
     rate_limit_per_hour |-> None, rate_limit_per_day |-> None]

\* APIKeyUpdate with a usage_count field.
APIKeyUpdateDefaults_WithUsage ==
    [name |-> None, is_active |-> None, expires_at |-> None,
     rate_limit_per_hour |-> None, rate_limit_per_day |-> None,
     usage_count |-> None]

APIKeyUpdateDefaults ==
    [name |-> None, is_active |-> None, expires_at |-> None,
     rate_limit_per_hour |-> None, rate_limit_per_day |-> None]

APIKeyUpdateFields == DOMAIN APIKeyUpdateDefaults

APIKeyUpdateValid(p) ==
    /\ OptLe(p.name, 100)
    /\ OptGe(p.rate_limit_per_hour, 1) /\ OptGe(p.rate_limit_per_day, 1)

(***************************************************************************)
(* TestSession, TestSessionCreate.                                         *)
(***************************************************************************)
TestSessionFields ==
    {"id", "user_id", "agent_id", "status", "session_data", "total_exchanges",
     "avg_response_time", "total_duration", "error_count", "last_error",
     "started_at", "ended_at", "created_at"}

\* TestSession with another default status.
TestSessionDefaults_Completed(now) ==
    [id |-> None, status |-> "completed", session_data |-> {},
     total_exchanges |-> 0, avg_response_time |-> None,
     total_duration |-> None, error_count |-> 0, last_error |-> None,
     started_at |-> now, ended_at |-> None, created_at |-> now]

TestSessionDefaults(now) ==
    [id |-> None, status |-> "active", session_data |-> {},
     total_exchanges |-> 0, avg_response_time |-> None,
     total_duration |-> None, error_count |-> 0, last_error |-> None,
     started_at |-> now, ended_at |-> None, created_at |-> now]

TestSessionOptional ==
    {"avg_response_time", "total_duration", "last_error", "ended_at"}

\* The constraints of the TestSession columns.
TestSessionValid(t) ==
    /\ t.status \in TestSessionStatus
    /\ t.total_exchanges >= 0 /\ t.error_count >= 0
    /\ OptGe(t.avg_response_time, 0) /\ OptGe(t.total_duration, 0)
    /\ OptLe(t.last_error, 1000)

TestSessionCreateRequired == {"agent_id"}

TestSessionCreateDefaults == <<>>

TestSessionCreateFields ==
    TestSessionCreateRequired \cup DOMAIN TestSessionCreateDefaults

TestSessionCreateValid(p) == p.agent_id \in Int

(***************************************************************************)
(* ConversationLog, ConversationEntry.                                     *)
(***************************************************************************)
ConversationLogFields ==
    {"id", "test_session_id", "sequence_number", "user_input",
     "agent_response", "processing_time", "tts_processing_time",
     "stt_processing_time", "llm_processing_time", "audio_input_duration",
     "audio_output_duration", "has_error", "error_message", "timestamp"}

ConversationLogOptional ==
    {"tts_processing_time", "stt_processing_time", "llm_processing_time",
     "audio_input_duration", "audio_output_duration", "error_message"}

ConversationLogDefaults(now) ==
    [id |-> None, tts_processing_time |-> None, stt_processing_time |-> None,
     llm_processing_time |-> None, audio_input_duration |-> None,
     audio_output_duration |-> None, has_error |-> FALSE,
     error_message |-> None, timestamp |-> now]

\* ConversationLog with sequence_number declared ge=0.
ConversationLogValid_FromZero(l) ==
    /\ l.sequence_number >= 0
    /\ l.user_input <= 2000 /\ l.agent_response <= 5000
    /\ l.processing_time >= 0
    /\ OptGe(l.tts_processing_time, 0) /\ OptGe(l.stt_processing_time, 0)
    /\ OptGe(l.llm_processing_time, 0)
    /\ OptGe(l.audio_input_duration, 0) /\ OptGe(l.audio_output_duration, 0)
    /\ OptLe(l.error_message, 1000)

\* The constraints of the ConversationLog columns.
ConversationLogValid(l) ==
    /\ l.sequence_number >= 1
    /\ l.user_input <= 2000 /\ l.agent_response <= 5000
    /\ l.processing_time >= 0
    /\ OptGe(l.tts_processing_time, 0) /\ OptGe(l.stt_processing_time, 0)
    /\ OptGe(l.llm_processing_time, 0)
    /\ OptGe(l.audio_input_duration, 0) /\ OptGe(l.audio_output_duration, 0)
    /\ OptLe(l.error_message, 1000)

ConversationEntryRequired == {"user_input", "agent_response", "processing_time"}

ConversationEntryDefaults ==
    [tts_processing_time |-> None, stt_processing_time |-> None,
     llm_processing_time |-> None, audio_input_duration |-> None,
     audio_output_duration |-> None, has_error |-> FALSE,
     error_message |-> None]

ConversationEntryOptional ==
    {"tts_processing_time", "stt_processing_time", "llm_processing_time",
     "audio_input_duration", "audio_output_duration", "error_message"}

ConversationEntryFields ==
    ConversationEntryRequired \cup DOMAIN ConversationEntryDefaults

ConversationEntryValid(p) ==
    /\ p.user_input <= 2000 /\ p.agent_response <= 5000
    /\ p.processing_time >= 0
    /\ OptGe(p.tts_processing_time, 0) /\ OptGe(p.stt_processing_time, 0)
    /\ OptGe(p.llm_processing_time, 0)
    /\ OptGe(p.audio_input_duration, 0) /\ OptGe(p.audio_output_duration, 0)
    /\ OptLe(p.error_message, 1000)

(***************************************************************************)
(* Values a request may carry, per field: for a constrained field the      *)
(* values on both sides of each limit.                                     *)
(***************************************************************************)
LongUsername == "abcdefghijklmnopqrstuvwxyzabcdefghijklmnopqrstuvwxyz"

Emails ==
    {<<"a", "@", "b", ".", "c", "o">>,
     <<"x", ".", "y", "@", "z", "-", "q", ".", "i", "o">>,
     <<"n", "o", "t", "-", "a", "n", "-", "e", "m", "a", "i", "l">>}

Usernames == {"alice", "bob", LongUsername}

PasswordHashes == {"pbkdf2:1f3a"}

KeyHashes == {"sha256:aa", "sha256:bb"}

Configs == {{<<"model", "base">>}}

UserInputs == [full_name |-> {101}, password |-> {7, 101}]

UserUpdateInputs == [full_name |-> {100, 101}, username |-> Usernames]

AIServiceInputs ==
    [name |-> {100, 101},
     service_type |-> {"tts", "stt", "llm", "ocr"},
     provider |-> {100, 101},
     description |-> {500, 501},
     is_active |-> {FALSE},
     default_config |-> Configs]

AgentInputs ==
    [name |-> {100, 101},
     description |-> {500, 501},
     system_message |-> {2000, 2001},
     voice_pitch |-> {9, 10, 200, 250},
     voice_speed |-> {9, 10, 300, 301},
     voice_volume |-> {9, 10, 200, 201},
     response_timeout |-> {4, 5, 300, 301},
     max_conversation_length |-> {0, 1, 1000, 1001},
     status |-> {"draft", "active", "inactive", "archived"}]

ServiceConfigInputs == [config |-> Configs, is_primary |-> {TRUE, FALSE}]

APIKeyInputs ==
    [name |-> {100, 101},
     is_active |-> {FALSE},
     usage_count |-> {0},
     expires_at |-> {9},
     rate_limit_per_hour |-> {0, 1},
     rate_limit_per_day |-> {0, 1}]

ConversationInputs ==
    [user_input |-> {2000, 2001},
     agent_response |-> {5000, 5001},
     processing_time |-> {-1, 0},
     tts_processing_time |-> {-1, 0},
     stt_processing_time |-> {-1, 0},
     llm_processing_time |-> {-1, 0},
     audio_input_duration |-> {-1, 0},
     audio_output_duration |-> {-1, 0},
     has_error |-> {TRUE},
     error_message |-> {1000, 1001}]

SequenceNumbers == {0, 1, 2}

\* Arguments that satisfy every constraint; a request carries them with at
\* most one field overridden.
UserCreateArgs == [full_name |-> 5, password |-> 8]

AIServiceCreateArgs == [name |-> 5, service_type |-> "tts", provider |-> 6]

AgentCreateArgs == [name |-> 5]

APIKeyCreateArgs == [name |-> 5]

ConversationEntryArgs ==
    [user_input |-> 5, agent_response |-> 5, processing_time |-> 5]

(***************************************************************************)
(* Requests.  Every request is served to completion in one step: it is     *)
(* accepted and changes its table, or it is refused with an error and      *)
(* changes none.  A create request validates its payload, builds the row   *)
(* (the row class checks its own column constraints), and inserts it; the  *)
(* storage layer checks foreign keys and unique columns.  An update        *)
(* request validates its payload and assigns the set fields to the stored  *)
(* row.  lastOp records the request just served.                           *)
(***************************************************************************)
\* lastOp: the payload class of the request, the row it names (for a create,
\* the row it stored, or 0), the argument the server adds (the owner, the
\* key's hash, the sequence number), the arguments of the request, the
\* payload built from them, the row as it was before an accepted update,
\* and the outcome.
Served(op, target, extra, args, payload, prev, error) ==
    /\ lastOp' = [op |-> op, target |-> target, extra |-> extra,
                  args |-> args, payload |-> payload, prev |-> prev,
                  error |-> error]
    /\ clock' = clock + 1
    /\ budget' = budget - 1

Refused(op, target, extra, args, payload, error) ==
    /\ Served(op, target, extra, args, payload, <<>>, error)
    /\ UNCHANGED tables

\* The storage layer's unique index: another row holds the same value in a
\* unique column.
Conflict(table, row, unique, self) ==
    \E i \in DOMAIN table : i # self /\ \E f \in unique : table[i][f] = row[f]

\* What a request on a row may name: a stored row with any arguments, or
\* the next free identifier (a row that does not exist).
Targets(table, inputs) ==
    ((DOMAIN table) \X Overrides(inputs)) \cup {<<Len(table) + 1, <<>>>>}

CanInsert(table) == budget > 0 /\ Len(table) < MaxRows

\* The update handler may or may not stamp the row it has written.
Stamped(row) == {row, [row EXCEPT !.updated_at = clock]}

DoCreateUser(args, hash) ==
    LET p == BuildPayload(args, UserCreateRequired, UserCreateDefaults, {})
        row == BuildRow([email |-> p.email, username |-> p.username,
                         full_name |-> p.full_name, password_hash |-> hash],
                        UserDefaults(clock))
    IN  IF ~UserCreateValid(p) \/ ~UserValid(row)
        THEN Refused("UserCreate", 0, 0, args, p, "ValidationError")
        ELSE IF Conflict(users, row, UserUnique, 0)
        THEN Refused("UserCreate", 0, 0, args, p, "UniquenessConflict")
        ELSE /\ users' = Insert(users, row)
             /\ Served("UserCreate", Len(users) + 1, 0, args, p, <<>>, "none")
             /\ UNCHANGED <<aiServices, agents, serviceConfigs, apiKeys,
                            testSessions, conversationLogs>>

CreateUser ==
    /\ CanInsert(users)
    /\ \E e \in Emails, u \in Usernames, o \in Overrides(UserInputs),
          h \in PasswordHashes :
           DoCreateUser(o @@ [email |-> e, username |-> u] @@ UserCreateArgs,
                        h)

DoUpdateUser(id, args) ==
    LET p == BuildPayload(args, {}, UserUpdateDefaults, UserUpdateFields)
        new == ApplyUpdate(users[id], p, {})
    IN  /\ budget > 0
        /\ IF ~UserUpdateValid(p)
           THEN Refused("UserUpdate", id, 0, args, p, "ValidationError")
           ELSE IF id \notin DOMAIN users
           THEN Refused("UserUpdate", id, 0, args, p, "NotFound")
           ELSE IF Conflict(users, new, UserUnique, id)
           THEN Refused("UserUpdate", id, 0, args, p, "UniquenessConflict")
           ELSE /\ \E r \in Stamped(new) : users' = [users EXCEPT ![id] = r]
                /\ Served("UserUpdate", id, 0, args, p, users[id], "none")
                /\ UNCHANGED <<aiServices, agents, serviceConfigs, apiKeys,
                               testSessions, conversationLogs>>

UpdateUser ==
    \E t \in Targets(users, UserUpdateInputs) : DoUpdateUser(t[1], t[2])

DoCreateAIService(args) ==
    LET p == BuildPayload(args, AIServiceCreateRequired,
                          AIServiceCreateDefaults, {})
        row == BuildRow(p, AIServiceDefaults(clock))
    IN  IF ~AIServiceCreateValid(p) \/ ~AIServiceValid(row)
        THEN Refused("AIServiceCreate", 0, 0, args, p, "ValidationError")
        ELSE /\ aiServices' = Insert(aiServices, row)
             /\ Served("AIServiceCreate", Len(aiServices) + 1, 0, args, p, <<>>, "none")
             /\ UNCHANGED <<users, agents, serviceConfigs, apiKeys,
                            testSessions, conversationLogs>>

CreateAIService ==
    /\ CanInsert(aiServices)
    /\ \E o \in Overrides(AIServiceInputs) :
           DoCreateAIService(o @@ AIServiceCreateArgs)

DoUpdateAIService(id, args) ==
    LET p == BuildPayload(args, {}, AIServiceUpdateDefaults,
                          AIServiceUpdateFields)
    IN  /\ budget > 0
        /\ IF ~AIServiceUpdateValid(p)
           THEN Refused("AIServiceUpdate", id, 0, args, p, "ValidationError")
           ELSE IF id \notin DOMAIN aiServices
           THEN Refused("AIServiceUpdate", id, 0, args, p, "NotFound")
           ELSE /\ aiServices' =
                      [aiServices EXCEPT ![id] = ApplyUpdate(@, p, {})]
                /\ Served("AIServiceUpdate", id, 0, args, p, aiServices[id], "none")
                /\ UNCHANGED <<users, agents, serviceConfigs, apiKeys,
                               testSessions, conversationLogs>>

UpdateAIService ==
    \E t \in Targets(aiServices, AIServiceInputs) :
        DoUpdateAIService(t[1], t[2])

DoCreateAgent(user_id, args) ==
    LET p == BuildPayload(args, AgentCreateRequired, AgentCreateDefaults, {})
        row == BuildRow([user_id |-> user_id] @@ p, AgentDefaults(clock))
    IN  /\ CanInsert(agents)
        /\ IF ~AgentCreateValid(p) \/ ~AgentValid(row)
           THEN Refused("AgentCreate", 0, user_id, args, p, "ValidationError")
           ELSE IF user_id \notin DOMAIN users
           THEN Refused("AgentCreate", 0, user_id, args, p, "ReferenceError")
           ELSE /\ agents' = Insert(agents, row)
                /\ Served("AgentCreate", Len(agents) + 1, user_id, args, p, <<>>, "none")
                /\ UNCHANGED <<users, aiServices, serviceConfigs, apiKeys,
                               testSessions, conversationLogs>>

CreateAgent ==
    \E t \in Targets(users, AgentInputs) :
        DoCreateAgent(t[1], t[2] @@ AgentCreateArgs)

DoUpdateAgent(id, args) ==
    LET p == BuildPayload(args, {}, AgentUpdateDefaults, AgentUpdateFields)
    IN  /\ budget > 0
        /\ IF ~AgentUpdateValid(p)
           THEN Refused("AgentUpdate", id, 0, args, p, "ValidationError")
           ELSE IF id \notin DOMAIN agents
           THEN Refused("AgentUpdate", id, 0, args, p, "NotFound")
           ELSE /\ \E r \in Stamped(ApplyUpdate(agents[id], p, {})) :
                      agents' = [agents EXCEPT ![id] = r]
                /\ Served("AgentUpdate", id, 0, args, p, agents[id], "none")
                /\ UNCHANGED <<users, aiServices, serviceConfigs, apiKeys,
                               testSessions, conversationLogs>>

UpdateAgent ==
    \E t \in Targets(agents, AgentInputs) : DoUpdateAgent(t[1], t[2])

DoCreateServiceConfig(agent_id, args) ==
    LET p == BuildPayload(args, ServiceConfigCreateRequired,
                          ServiceConfigCreateDefaults, {})
        row == BuildRow([agent_id |-> agent_id] @@ p,
                        AgentServiceConfigDefaults(clock))
    IN  /\ CanInsert(serviceConfigs)
        /\ IF ~ServiceConfigCreateValid(p) \/ ~AgentServiceConfigValid(row)
           THEN Refused("ServiceConfigCreate", 0, agent_id, args, p, "ValidationError")
           ELSE IF agent_id \notin DOMAIN agents
                   \/ p.service_id \notin DOMAIN aiServices
           THEN Refused("ServiceConfigCreate", 0, agent_id, args, p, "ReferenceError")
           ELSE /\ serviceConfigs' = Insert(serviceConfigs, row)
                /\ Served("ServiceConfigCreate", Len(serviceConfigs) + 1, agent_id, args, p, <<>>, "none")
                /\ UNCHANGED <<users, aiServices, agents, apiKeys,
                               testSessions, conversationLogs>>

CreateServiceConfig ==
    \E t \in Targets(agents, ServiceConfigInputs),
       sid \in 1..(Len(aiServices) + 1) :
        DoCreateServiceConfig(t[1], t[2] @@ [service_id |-> sid])

DoUpdateServiceConfig(id, args) ==
    LET p == BuildPayload(args, {}, ServiceConfigUpdateDefaults,
                          ServiceConfigUpdateFields)
    IN  /\ budget > 0
        /\ IF ~ServiceConfigUpdateValid(p)
           THEN Refused("ServiceConfigUpdate", id, 0, args, p, "ValidationError")
           ELSE IF id \notin DOMAIN serviceConfigs
           THEN Refused("ServiceConfigUpdate", id, 0, args, p, "NotFound")
           ELSE /\ \E r \in Stamped(ApplyUpdate(serviceConfigs[id], p, {})) :
                      serviceConfigs' = [serviceConfigs EXCEPT ![id] = r]
                /\ Served("ServiceConfigUpdate", id, 0, args, p, serviceConfigs[id], "none")
                /\ UNCHANGED <<users, aiServices, agents, apiKeys,
                               testSessions, conversationLogs>>

UpdateServiceConfig ==
    \E t \in Targets(serviceConfigs, ServiceConfigInputs) :
        DoUpdateServiceConfig(t[1], t[2])

\* The key's hash and preview come from the authentication service.
DoCreateAPIKey(agent_id, args, hash) ==
    LET p == BuildPayload(args, APIKeyCreateRequired, APIKeyCreateDefaults,
                          DOMAIN APIKeyCreateDefaults)
        row == BuildRow([agent_id |-> agent_id, key_hash |-> hash,
                         key_preview |-> 8] @@ p, APIKeyDefaults(clock))
    IN  /\ CanInsert(apiKeys)
        /\ IF ~APIKeyCreateValid(p) \/ ~APIKeyValid(row)
           THEN Refused("APIKeyCreate", 0, hash, args, p, "ValidationError")
           ELSE IF agent_id \notin DOMAIN agents
           THEN Refused("APIKeyCreate", 0, hash, args, p, "ReferenceError")
           ELSE IF Conflict(apiKeys, row, APIKeyUnique, 0)
           THEN Refused("APIKeyCreate", 0, hash, args, p, "UniquenessConflict")
           ELSE /\ apiKeys' = Insert(apiKeys, row)
                /\ Served("APIKeyCreate", Len(apiKeys) + 1, hash, args, p, <<>>, "none")
                /\ UNCHANGED <<users, aiServices, agents, serviceConfigs,
                               testSessions, conversationLogs>>

CreateAPIKey ==
    \E t \in Targets(agents, APIKeyInputs), h \in KeyHashes :
        DoCreateAPIKey(t[1], t[2] @@ APIKeyCreateArgs, h)

DoUpdateAPIKey(id, args) ==
    LET p == BuildPayload(args, {}, APIKeyUpdateDefaults, APIKeyUpdateFields)
    IN  /\ budget > 0
        /\ IF ~APIKeyUpdateValid(p)
           THEN Refused("APIKeyUpdate", id, 0, args, p, "ValidationError")
           ELSE IF id \notin DOMAIN apiKeys
           THEN Refused("APIKeyUpdate", id, 0, args, p, "NotFound")
           ELSE /\ \E r \in Stamped(ApplyUpdate(apiKeys[id], p, APIKeyOptional)) :
                      apiKeys' = [apiKeys EXCEPT ![id] = r]
                /\ Served("APIKeyUpdate", id, 0, args, p, apiKeys[id], "none")
                /\ UNCHANGED <<users, aiServices, agents, serviceConfigs,
                               testSessions, conversationLogs>>

UpdateAPIKey ==
    \E t \in Targets(apiKeys, APIKeyInputs) : DoUpdateAPIKey(t[1], t[2])

\* A call authenticated with the key: the key's usage is counted.
UseAPIKey ==
    \E id \in 1..(Len(apiKeys) + 1) :
        /\ budget > 0
        /\ IF id \notin DOMAIN apiKeys
           THEN Refused("APIKeyUse", id, 0, <<>>, <<>>, "NotFound")
           ELSE IF ~apiKeys[id].is_active
           THEN Refused("APIKeyUse", id, 0, <<>>, <<>>, "InactiveKey")
           ELSE /\ apiKeys' = [apiKeys EXCEPT
                                 ![id].usage_count = @ + 1,
                                 ![id].last_used_at = Some(clock)]
                /\ Served("APIKeyUse", id, 0, <<>>, <<>>, apiKeys[id], "none")
                /\ UNCHANGED <<users, aiServices, agents, serviceConfigs,
                               testSessions, conversationLogs>>

DoCreateTestSession(user_id, args) ==
    LET p == BuildPayload(args, TestSessionCreateRequired,
                          TestSessionCreateDefaults, {})
        row == BuildRow([user_id |-> user_id] @@ p, TestSessionDefaults(clock))
    IN  /\ CanInsert(testSessions)
        /\ IF ~TestSessionCreateValid(p) \/ ~TestSessionValid(row)
           THEN Refused("TestSessionCreate", 0, user_id, args, p, "ValidationError")
           ELSE IF user_id \notin DOMAIN users \/ p.agent_id \notin DOMAIN agents
           THEN Refused("TestSessionCreate", 0, user_id, args, p, "ReferenceError")
           ELSE /\ testSessions' = Insert(testSessions, row)
                /\ Served("TestSessionCreate", Len(testSessions) + 1, user_id, args, p, <<>>, "none")
                /\ UNCHANGED <<users, aiServices, agents, serviceConfigs,
                               apiKeys, conversationLogs>>

CreateTestSession ==
    \E u \in 1..(Len(users) + 1), a \in 1..(Len(agents) + 1) :
        DoCreateTestSession(u, [agent_id |-> a])

\* One exchange of a session is logged under the sequence number given, and
\* the session's counters take it in.
DoLogConversation(session_id, seq, args) ==
    LET p == BuildPayload(args, ConversationEntryRequired,
                          ConversationEntryDefaults,
                          ConversationEntryOptional)
        row == BuildRow([test_session_id |-> session_id,
                         sequence_number |-> seq] @@ p,
                        ConversationLogDefaults(clock))
    IN  /\ CanInsert(conversationLogs)
        /\ IF ~ConversationEntryValid(p) \/ ~ConversationLogValid(row)
           THEN Refused("ConversationEntry", session_id, seq, args, p, "ValidationError")
           ELSE IF session_id \notin DOMAIN testSessions
           THEN Refused("ConversationEntry", session_id, seq, args, p, "ReferenceError")
           ELSE /\ conversationLogs' = Insert(conversationLogs, row)
                /\ testSessions' = [testSessions EXCEPT
                      ![session_id].total_exchanges = @ + 1,
                      ![session_id].error_count =
                          IF row.has_error THEN @ + 1 ELSE @]
                /\ Served("ConversationEntry", session_id, seq, args, p, <<>>, "none")
                /\ UNCHANGED <<users, aiServices, agents, serviceConfigs,
                               apiKeys>>

LogConversation ==
    \E t \in Targets(testSessions, ConversationInputs),
       seq \in SequenceNumbers :
        DoLogConversation(t[1], seq, t[2] @@ ConversationEntryArgs)

(***************************************************************************)
(* Specifications.  Spec serves every request from the empty database.     *)
(* The others serve the requests on one part of the schema, from a         *)
(* database that already holds the rows those requests refer to: the rows  *)
(* that CreateUser and CreateAgent store for valid arguments.              *)
(***************************************************************************)
NoOp ==
    [op |-> "none", target |-> 0, extra |-> 0, args |-> <<>>,
     payload |-> <<>>, prev |-> <<>>, error |-> "none"]

SeedUsers ==
    Insert(<<>>,
           BuildRow([email |-> <<"a", "@", "b", ".", "c", "o">>,
                     username |-> "alice", full_name |-> UserCreateArgs.full_name,
                     password_hash |-> "pbkdf2:1f3a"],
                    UserDefaults(0)))

SeedAgents ==
    Insert(<<>>,
           BuildRow([user_id |-> 1]
                        @@ BuildPayload(AgentCreateArgs, AgentCreateRequired,
                                        AgentCreateDefaults, {}),
                    AgentDefaults(1)))

Init ==
    /\ users = <<>> /\ aiServices = <<>> /\ agents = <<>>
    /\ serviceConfigs = <<>> /\ apiKeys = <<>> /\ testSessions = <<>>
    /\ conversationLogs = <<>>
    /\ lastOp = NoOp /\ clock = 0 /\ budget = MaxSchemaRequests

Next ==
    \/ CreateUser \/ UpdateUser
    \/ CreateAIService \/ UpdateAIService
    \/ CreateAgent \/ UpdateAgent
    \/ CreateServiceConfig \/ UpdateServiceConfig
    \/ CreateAPIKey \/ UpdateAPIKey \/ UseAPIKey
    \/ CreateTestSession \/ LogConversation

Spec == Init /\ [][Next]_vars

\* The database of one user with one agent, with n requests to serve.
InitAgent(n) ==
    /\ users = SeedUsers /\ agents = SeedAgents
    /\ aiServices = <<>> /\ serviceConfigs = <<>>
    /\ apiKeys = <<>> /\ testSessions = <<>> /\ conversationLogs = <<>>
    /\ lastOp = NoOp /\ clock = 2 /\ budget = n

\* The agents of a user.
InitAgents == InitAgent(MaxRequests)

NextAgents == CreateAgent \/ UpdateAgent

SpecAgents == InitAgents /\ [][NextAgents]_vars

\* The unique columns: users and API keys.
InitAccounts == InitAgent(MaxRequests)

NextAccounts == CreateUser \/ UpdateUser \/ CreateAPIKey

SpecAccounts == InitAccounts /\ [][NextAccounts]_vars

\* The API keys of an agent.
InitKeys == InitAgent(MaxChainRequests)

NextKeys == CreateAPIKey \/ UpdateAPIKey \/ UseAPIKey

SpecKeys == InitKeys /\ [][NextKeys]_vars

\* The service catalogue and the agent's service configurations.
InitServices == InitAgent(MaxRequests)

NextServices ==
    \/ CreateAIService \/ UpdateAIService
    \/ CreateServiceConfig \/ UpdateServiceConfig

SpecServices == InitServices /\ [][NextServices]_vars

\* The test sessions of an agent and their conversation logs.
InitSessions == InitAgent(MaxChainRequests)

NextSessions == CreateTestSession \/ LogConversation

SpecSessions == InitSessions /\ [][NextSessions]_vars

\* The seeded databases are states the requests reach from the empty one.
SeedReached == users = SeedUsers /\ agents = SeedAgents /\ clock = 2

(***************************************************************************)
(* Properties.                                                             *)
(***************************************************************************)
\* The value the request just served gives field f, as an Optional: an
\* update payload holds Optionals, a create payload holds values.
Given(f) ==
    IF lastOp.op = "AgentUpdate" THEN lastOp.payload[f]
    ELSE Some(lastOp.payload[f])

Outside(f, lo, hi) == Given(f) # None /\ (Given(f)[1] < lo \/ Given(f)[1] > hi)

AgentRequest == lastOp.op \in {"AgentCreate", "AgentUpdate"}

\* C1: every stored Agent has voice_pitch in [0.1, 2.0], voice_speed in
\* [0.1, 3.0], voice_volume in [0.1, 2.0], response_timeout in [5, 300] and
\* max_conversation_length in [1, 1000]; an AgentCreate or AgentUpdate that
\* carries a value outside its range is refused with a validation error, and
\* an AgentCreate whose values are all within their limits (voice_pitch 2.0
\* among them) is not.
C1_AgentRanges ==
    /\ \A i \in DOMAIN agents :
          /\ agents[i].voice_pitch >= 10 /\ agents[i].voice_pitch <= 200
          /\ agents[i].voice_speed >= 10 /\ agents[i].voice_speed <= 300
          /\ agents[i].voice_volume >= 10 /\ agents[i].voice_volume <= 200
          /\ agents[i].response_timeout >= 5
          /\ agents[i].response_timeout <= 300
          /\ agents[i].max_conversation_length >= 1
          /\ agents[i].max_conversation_length <= 1000
    /\ AgentRequest =>
          LET out == \/ Outside("voice_pitch", 10, 200)
                     \/ Outside("voice_speed", 10, 300)
                     \/ Outside("voice_volume", 10, 200)
                     \/ Outside("response_timeout", 5, 300)
                     \/ Outside("max_conversation_length", 1, 1000)
              long == \/ Outside("name", 0, 100)
                      \/ Outside("description", 0, 500)
                      \/ Outside("system_message", 0, 2000)
          IN  /\ out => lastOp.error = "ValidationError"
              /\ (lastOp.op = "AgentCreate" /\ ~out /\ ~long)
                    => lastOp.error # "ValidationError"

\* An update with voice_pitch 2.5 is refused while an agent stored with
\* voice_pitch 2.0 stands.
C1_Witness ==
    /\ lastOp.op = "AgentUpdate" /\ lastOp.error = "ValidationError"
    /\ lastOp.payload.voice_pitch = Some(250)
    /\ \E i \in DOMAIN agents : agents[i].voice_pitch = 200

Distinct(table, f) ==
    \A i \in DOMAIN table : \A j \in DOMAIN table :
        i # j => table[i][f] # table[j][f]

UniqueColumns(us, ks) ==
    Distinct(us, "email") /\ Distinct(us, "username") /\ Distinct(ks, "key_hash")

\* The request just served (primed state), valid and naming rows that
\* exist, would have duplicated a unique value of the rows stored before it.
Duplicating ==
    /\ lastOp'.error \notin {"ValidationError", "ReferenceError"}
    /\ \/ /\ lastOp'.op = "UserCreate"
          /\ \E i \in DOMAIN users :
                \/ users[i].email = lastOp'.payload.email
                \/ users[i].username = lastOp'.payload.username
       \/ /\ lastOp'.op = "UserUpdate"
          /\ lastOp'.target \in DOMAIN users
          /\ lastOp'.payload.username # None
          /\ \E i \in DOMAIN users :
                /\ i # lastOp'.target
                /\ users[i].username = lastOp'.payload.username[1]
       \/ /\ lastOp'.op = "APIKeyCreate"
          /\ \E i \in DOMAIN apiKeys : apiKeys[i].key_hash = lastOp'.extra

\* C2: no two Users share an email or a username and no two APIKeys share
\* a key_hash; a create (or a username update) that would duplicate one of
\* them fails with UniquenessConflict and changes no stored row.
C2_Uniqueness ==
    [][/\ UniqueColumns(users, apiKeys) /\ UniqueColumns(users', apiKeys')
       /\ Duplicating =>
             lastOp'.error = "UniquenessConflict" /\ UNCHANGED tables
       /\ lastOp'.error = "UniquenessConflict" => Duplicating]_vars

\* A username update of one of two users is refused as a conflict.
C2_Witness ==
    /\ Len(users) = 2
    /\ lastOp.op = "UserUpdate" /\ lastOp.error = "UniquenessConflict"
    /\ lastOp.payload.username = Some(users[3 - lastOp.target].username)

AgentColumnsOfC3 ==
    {"id", "user_id", "name", "description", "system_message", "status",
     "voice_pitch", "voice_speed", "voice_volume", "response_timeout",
     "max_conversation_length"}

\* C3: an AgentUpdate built from no arguments has every field unset (None),
\* and serving it changes no agent's id, user_id, name, description,
\* system_message, status, voice parameters, response_timeout or
\* max_conversation_length.
C3_EmptyUpdate ==
    [][(lastOp'.op = "AgentUpdate" /\ DOMAIN lastOp'.args = {}) =>
          /\ \A f \in DOMAIN lastOp'.payload : lastOp'.payload[f] = None
          /\ lastOp'.error \in {"none", "NotFound"}
          /\ DOMAIN agents' = DOMAIN agents
          /\ \A i \in DOMAIN agents : \A f \in AgentColumnsOfC3 :
                agents'[i][f] = agents[i][f]]_vars

\* The empty update was applied to an agent that is no longer a draft.
C3_Witness ==
    /\ lastOp.op = "AgentUpdate" /\ DOMAIN lastOp.args = {}
    /\ lastOp.error = "none"
    /\ agents[lastOp.target].status = "inactive"

\* C4: a key's usage_count starts at 0, is never negative and never
\* decreases; an APIKeyUpdate carries no usage_count and leaves every
\* key's count as it was.
C4_UsageCount ==
    [][/\ \A i \in DOMAIN apiKeys' :
             /\ apiKeys'[i].usage_count >= 0
             /\ i \notin DOMAIN apiKeys => apiKeys'[i].usage_count = 0
             /\ i \in DOMAIN apiKeys =>
                   apiKeys'[i].usage_count >= apiKeys[i].usage_count
       /\ lastOp'.op = "APIKeyUpdate" =>
             /\ "usage_count" \notin DOMAIN lastOp'.payload
             /\ \A i \in DOMAIN apiKeys :
                   apiKeys'[i].usage_count = apiKeys[i].usage_count]_vars

\* A key that has been used is updated, by a request that names usage_count.
C4_Witness ==
    /\ lastOp.op = "APIKeyUpdate" /\ lastOp.error = "none"
    /\ "usage_count" \in DOMAIN lastOp.args
    /\ apiKeys[lastOp.target].usage_count = 1

\* C5: a service's service_type is the one of {tts, stt, llm} its
\* AIServiceCreate gave and never changes; an AIServiceUpdate carries only
\* name, description, is_active and default_config.
C5_ServiceTypeFixed ==
    [][/\ \A i \in DOMAIN aiServices' :
             /\ aiServices'[i].service_type \in {"tts", "stt", "llm"}
             /\ i \in DOMAIN aiServices =>
                   aiServices'[i].service_type = aiServices[i].service_type
             /\ i \notin DOMAIN aiServices =>
                   /\ lastOp'.op = "AIServiceCreate"
                   /\ aiServices'[i].service_type = lastOp'.payload.service_type
       /\ lastOp'.op = "AIServiceUpdate" =>
             DOMAIN lastOp'.payload =
                 {"name", "description", "is_active", "default_config"}]_vars

\* An accepted update whose request named another service_type.
C5_Witness ==
    /\ lastOp.op = "AIServiceUpdate" /\ lastOp.error = "none"
    /\ "service_type" \in DOMAIN lastOp.args
    /\ lastOp.args.service_type # aiServices[lastOp.target].service_type

StageTimings ==
    {"tts_processing_time", "stt_processing_time", "llm_processing_time",
     "audio_input_duration", "audio_output_duration"}

\* The entry just logged carries a negative timing or a sequence number
\* below 1.
EntryOutOfBounds ==
    \/ lastOp.extra < 1
    \/ lastOp.payload.processing_time < 0
    \/ \E f \in StageTimings :
          lastOp.payload[f] # None /\ lastOp.payload[f][1] < 0

\* The entry just logged carries a text longer than its column.
EntryTooLong ==
    \/ lastOp.payload.user_input > 2000
    \/ lastOp.payload.agent_response > 5000
    \/ lastOp.payload.error_message # None
          /\ lastOp.payload.error_message[1] > 1000

\* C6: every stored ConversationLog has sequence_number >= 1 and
\* processing_time >= 0, and each stage timing and audio duration is absent
\* or >= 0; an entry with a negative timing or a sequence_number below 1 is
\* refused with a validation error, and a valid ConversationEntry with a
\* sequence_number >= 1 is not.
C6_LogBounds ==
    /\ \A i \in DOMAIN conversationLogs :
          /\ conversationLogs[i].sequence_number >= 1
          /\ conversationLogs[i].processing_time >= 0
          /\ \A f \in StageTimings :
                \/ conversationLogs[i][f] = None
                \/ conversationLogs[i][f][1] >= 0
    /\ lastOp.op = "ConversationEntry" =>
          /\ EntryOutOfBounds => lastOp.error = "ValidationError"
          /\ (~EntryOutOfBounds /\ ~EntryTooLong)
                => lastOp.error # "ValidationError"

\* A log with a stage timing of 0 is stored, and an entry numbered 0 for an
\* existing session is refused.
C6_Witness ==
    /\ lastOp.op = "ConversationEntry" /\ lastOp.extra = 0
    /\ lastOp.error = "ValidationError"
    /\ lastOp.target \in DOMAIN testSessions
    /\ \E i \in DOMAIN conversationLogs :
          conversationLogs[i].tts_processing_time = Some(0)

PersistedFields(op) ==
    CASE op \in {"UserCreate", "UserUpdate"} -> UserFields
      [] op \in {"AIServiceCreate", "AIServiceUpdate"} -> AIServiceFields
      [] op \in {"AgentCreate", "AgentUpdate"} -> AgentFields
      [] op \in {"ServiceConfigCreate", "ServiceConfigUpdate"} ->
            AgentServiceConfigFields
      [] op \in {"APIKeyCreate", "APIKeyUpdate"} -> APIKeyFields
      [] op = "TestSessionCreate" -> TestSessionFields
      [] op = "ConversationEntry" -> ConversationLogFields

PayloadClasses ==
    {"UserCreate", "UserUpdate", "AgentCreate", "AgentUpdate",
     "ServiceConfigCreate", "ServiceConfigUpdate", "APIKeyCreate",
     "APIKeyUpdate", "TestSessionCreate", "ConversationEntry",
     "AIServiceCreate", "AIServiceUpdate"}

StrictSubset(a, b) == a \subseteq b /\ a # b

\* C8 as stated: the fields of every payload, whatever its class, are a
\* strict subset of the fields of its persisted counterpart.
C8_StrictSubset ==
    lastOp.op \in PayloadClasses =>
        StrictSubset(DOMAIN lastOp.payload, PersistedFields(lastOp.op))

\* C8: the fields of every payload other than a UserCreate are a strict
\* subset of the fields of its persisted counterpart; a UserCreate carries
\* password, which is no field of User (User holds password_hash), and its
\* other fields are a strict subset of User's.
C8_StrictSubsetButPassword ==
    lastOp.op \in PayloadClasses =>
        IF lastOp.op = "UserCreate"
        THEN /\ "password" \in DOMAIN lastOp.payload
             /\ "password" \notin UserFields
             /\ StrictSubset(DOMAIN lastOp.payload \ {"password"}, UserFields)
        ELSE StrictSubset(DOMAIN lastOp.payload, PersistedFields(lastOp.op))

\* A UserCreate was accepted and its user stored.
C8_Witness ==
    /\ lastOp.op = "UserCreate" /\ lastOp.error = "none"
    /\ "password" \in DOMAIN lastOp.payload
    /\ "password_hash" \in DOMAIN users[lastOp.target]

\* C9: a TestSessionCreate carries only agent_id, and the session it
\* creates has status active, total_exchanges 0 and error_count 0;
\* total_exchanges and error_count of every session are >= 0.
C9_SessionDefaults ==
    /\ \A i \in DOMAIN testSessions :
          testSessions[i].total_exchanges >= 0
             /\ testSessions[i].error_count >= 0
    /\ (lastOp.op = "TestSessionCreate" /\ lastOp.error = "none") =>
          /\ DOMAIN lastOp.payload = {"agent_id"}
          /\ testSessions[lastOp.target].status = "active"
          /\ testSessions[lastOp.target].total_exchanges = 0
          /\ testSessions[lastOp.target].error_count = 0

\* A second session is created after the first has logged a failed
\* exchange.
C9_Witness ==
    /\ lastOp.op = "TestSessionCreate" /\ lastOp.error = "none"
    /\ lastOp.target = 2
    /\ testSessions[1].total_exchanges = 1 /\ testSessions[1].error_count = 1

\* C10: an agent's status is always one of draft, active, inactive, and
\* draft when the agent is created; an AgentUpdate that sets only status to
\* one of the three is accepted for any stored agent, whatever its status,
\* and gives it that status; one that sets another value is refused with
\* a validation error and changes no agent.
C10_StatusClosedSet ==
    [][/\ \A i \in DOMAIN agents :
             agents[i].status \in {"draft", "active", "inactive"}
       /\ \A i \in DOMAIN agents' :
             /\ agents'[i].status \in {"draft", "active", "inactive"}
             /\ i \notin DOMAIN agents => agents'[i].status = "draft"
       /\ (lastOp'.op = "AgentUpdate" /\ DOMAIN lastOp'.args = {"status"}) =>
             IF lastOp'.args.status \in {"draft", "active", "inactive"}
             THEN lastOp'.target \in DOMAIN agents =>
                     /\ lastOp'.error = "none"
                     /\ agents'[lastOp'.target].status = lastOp'.args.status
             ELSE lastOp'.error = "ValidationError" /\ agents' = agents]_vars

\* An inactive agent was moved back to draft.
C10_Witness ==
    /\ lastOp.op = "AgentUpdate" /\ lastOp.error = "none"
    /\ lastOp.prev.status = "inactive"
    /\ agents[lastOp.target].status = "draft"

====
